---- MODULE Spec2Model ----
(***************************************************************************)
(* Model of the read-path query router v1/services/storage/store.go:       *)
(* Store.ReadFilter, Store.ReadGroup, Store.TagKeys, Store.TagValues and   *)
(* the helpers they call (validateArgs, findShardIDs, MeasurementNames,    *)
(* measurementFields, tagValuesSlow, cursorHasData).                       *)
(*                                                                         *)
(* One request is processed at a time.  The entry points run atomically,   *)
(* except the scan of tagValuesSlow, which advances one series at a time   *)
(* so that cursor lifetimes and context cancellation can be observed.      *)
(***************************************************************************)
EXTENDS Integers, Sequences, FiniteSets, TLC

\* ------------------------------------------------------------------ bounds
MaxRefs == 1          \* most keys one predicate references
MaxResp == 2          \* most entries in one engine response / iterator
MaxSeries == 2        \* most series one series cursor yields
TimeBits == 5         \* width of the modelled timestamps

\* ------------------------------------------------------------- time range
MinInt == -(2 ^ (TimeBits - 1))
MaxInt == (2 ^ (TimeBits - 1)) - 1
MinNanoTime == MinInt + 2
MaxNanoTime == MaxInt - 1

Times == {-1, 0, 2, 5}

\* ---------------------------------------------------------------- strings
\* The strings of the model, in Go's byte-wise order ("R" < "_" < "a".."z").
StringOrder == <<"", "Region", "_field", "_measurement", "cpu", "host", "idle", "load", "mem">>

Rank(s) == CHOOSE i \in 1..Len(StringOrder) : StringOrder[i] = s

StrLess(a, b) == Rank(a) < Rank(b)

measurementKey == "_measurement"
fieldKey == "_field"

RECURSIVE InsertSorted(_, _)
InsertSorted(s, x) ==
    IF s = <<>> THEN <<x>>
    ELSE IF StrLess(x, Head(s)) THEN <<x>> \o s
    ELSE <<Head(s)>> \o InsertSorted(Tail(s), x)

\* the sort left out
SortStringsForgotten(s) == s

\* sort.Strings: ascending byte-wise order, duplicates kept.
RECURSIVE SortStrings(_)
SortStrings(s) ==
    IF s = <<>> THEN <<>>
    ELSE InsertSorted(SortStrings(Tail(s)), Head(s))

\* the keys of a Go map as one iteration may yield them: the sort that follows
\* makes the order immaterial, so the least favourable one (descending) is taken
RECURSIVE MapKeys(_)
MapKeys(m) ==
    IF m = {} THEN <<>>
    ELSE LET k == CHOOSE x \in m : \A y \in m : Rank(y) <= Rank(x)
         IN <<k>> \o MapKeys(m \ {k})

\* names := keys of m; sort.Strings(names)
SortedNames(m) == SortStrings(MapKeys(m))

\* slices.MergeSortedStrings over one sorted slice: drops adjacent duplicates
RECURSIVE MergeSortedStrings(_)
MergeSortedStrings(s) ==
    IF Len(s) <= 1 THEN s
    ELSE IF s[1] = s[2] THEN MergeSortedStrings(Tail(s))
    ELSE <<s[1]>> \o MergeSortedStrings(Tail(s))

SeqRange(s) == {s[i] : i \in 1..Len(s)}

SeqsUpTo(S, n) == UNION {[1..k -> S] : k \in 0..n}

\* ------------------------------------------------------------- predicates
\* A wire predicate is absent, untranslatable, or a tree referencing keys.
WireRefs == {"_value", "_field", "_measurement", "host"}

NoPredicate == [kind |-> "absent", refs |-> {}]

WirePredicates ==
    {NoPredicate, [kind |-> "bad", refs |-> {}]}
    \cup {[kind |-> "expr", refs |-> S] : S \in {T \in SUBSET WireRefs : Cardinality(T) <= MaxRefs}}

\* reserved wire-level names and the engine's internal names
measurementRemap == [k \in {"_measurement"} |-> "_name"]

Remap(k) == IF k \in DOMAIN measurementRemap THEN measurementRemap[k] ELSE k

\* reads.NodeToExpr: the native expression, or an error
NodeToExpr(root) ==
    IF root.kind = "bad" THEN [err |-> "translate", expr |-> NoPredicate]
    ELSE [err |-> "none", expr |-> [kind |-> "expr", refs |-> {Remap(k) : k \in root.refs}]]

HasFieldValueKey(expr) == "_value" \in expr.refs

\* HasFieldKeyOrValue: (references _field, references a field value)
HasFieldKeyOrValue(expr) == <<"_field" \in expr.refs, "_value" \in expr.refs>>

hasTagKey(expr) == expr.refs \ {"_field", "_value", "_name"} # {}

RewriteExprRemoveFieldKeyAndValue(expr) ==
    [kind |-> "expr", refs |-> expr.refs \ {"_field", "_value"}]

\* influxql.Reduce followed by IsTrueBooleanLiteral: an expression with no
\* reference left reduces to the literal true
IsTrueBooleanLiteral(expr) == expr.kind = "expr" /\ expr.refs = {}

\* ------------------------------------------------------- metadata service
\* bucket 1 has a database with the default retention policy, bucket 2 a
\* database without it, bucket 3 no database
Buckets == {1, 2, 3}

\* influxdb.ID(bucketID).String()
DatabaseName(bucketID) == <<"id", bucketID>>

DefaultRetentionPolicyName == "autogen"

Databases ==
    [d \in {DatabaseName(1), DatabaseName(2)} |->
        IF d = DatabaseName(1) THEN {DefaultRetentionPolicyName} ELSE {}]

GroupA == [StartTime |-> 1, EndTime |-> 3, Shards |-> <<1>>]
GroupB == [StartTime |-> 3, EndTime |-> 5, Shards |-> <<2, 3>>]

MetaStates == [databases : {Databases}, groups : {<<>>, <<GroupB, GroupA>>}]

\* meta.ShardGroupInfo.Overlaps
Overlaps(g, min, max) == g.StartTime <= max /\ g.EndTime > min

\* MetaClient.ShardGroupsByTimeRange
ShardGroupsByTimeRange(groups, min, max) ==
    SelectSeq(groups, LAMBDA g : Overlaps(g, min, max))

RECURSIVE InsertGroup(_, _, _)
InsertGroup(s, g, desc) ==
    IF s = <<>> THEN <<g>>
    ELSE IF (IF desc THEN g.StartTime > Head(s).StartTime ELSE g.StartTime < Head(s).StartTime)
         THEN <<g>> \o s
    ELSE <<Head(s)>> \o InsertGroup(Tail(s), g, desc)

\* sort.Sort(meta.ShardGroupInfos(groups)), reversed when desc
RECURSIVE SortGroups(_, _)
SortGroups(groups, desc) ==
    IF groups = <<>> THEN <<>>
    ELSE InsertGroup(SortGroups(Tail(groups), desc), Head(groups), desc)

RECURSIVE FlattenShards(_)
FlattenShards(groups) ==
    IF groups = <<>> THEN <<>>
    ELSE Head(groups).Shards \o FlattenShards(Tail(groups))

\* ---------------------------------------------------------- program state
VARIABLES
    meta,      \* the metadata service: databases and shard groups
    pc,        \* "idle", "scanning" (between two series), "body", "done"
    submitted, \* the request as the caller passed it
    req,       \* the request object of the call in progress
    ret,       \* what the call returned: [val, err]
    calls,     \* the MetaClient / TSDBStore methods invoked, in order
    cond,      \* the condition handed to the storage engine's index
    resp,      \* what the storage engine answered
    cursors,   \* the cursors the call obtained and their state
    scan,      \* the local state of tagValuesSlow's loop
    ctx,       \* the caller's context: "live" or "cancelled"
    validated, \* what validateArgs returned in this call
    path       \* how TagValues resolved: "index", "names", "fields", "scan"

vars == <<meta, pc, submitted, req, ret, calls, cond, resp, cursors, scan, ctx,
          validated, path>>

\* ------------------------------------------------------------ return values
NilValue == [kind |-> "nil", items |-> <<>>]
EmptyStringIterator == [kind |-> "empty", items |-> <<>>]
NewStringSliceIterator(names) == [kind |-> "iter", items |-> names]
NewFilteredResultSet == [kind |-> "resultset", items |-> <<>>]
NewGroupResultSet == [kind |-> "groupresultset", items |-> <<>>]

NoError == "none"
NoCursors == [series |-> "none", data |-> "none", iter |-> "none", opened |-> 0]
NoScan == [tagKey |-> "", idx |-> 0, m |-> {}]
NoRequest ==
    [op |-> "", source |-> [kind |-> "nil", OrganizationID |-> 0, BucketID |-> 0],
     Range |-> [Start |-> 0, End |-> 0],
     Predicate |-> NoPredicate, TagKey |-> ""]
NoResponse == [kind |-> "none", items |-> <<>>]
NoReturn == [val |-> NilValue, err |-> NoError]
NotValidated == [database |-> <<>>, rp |-> "", start |-> 0, end |-> 0, err |-> "not called"]

\* the outcome of a call that has returned
Return(r, val, err, cs, cu) ==
    [pc |-> "done", req |-> r, ret |-> [val |-> val, err |-> err], calls |-> cs,
     cond |-> NoPredicate, resp |-> NoResponse, cursors |-> cu, scan |-> NoScan,
     path |-> ""]

\* ------------------------------------------------------------------ helpers
\* a lookup that forgets the time range
findShardIDsAllGroups(m, database, rp, desc, start, end, fails) ==
    IF fails THEN [ids |-> <<>>, err |-> "meta"]
    ELSE [ids |-> FlattenShards(SortGroups(m.groups, desc)), err |-> NoError]

findShardIDs(m, database, rp, desc, start, end, fails) ==
    IF fails THEN [ids |-> <<>>, err |-> "meta"]
    ELSE LET groups == ShardGroupsByTimeRange(m.groups, start, end)
         IN IF Len(groups) = 0 THEN [ids |-> <<>>, err |-> NoError]
            ELSE [ids |-> FlattenShards(SortGroups(groups, desc)), err |-> NoError]

\* a validation that forgets to look the database up
validateArgsAnyDatabase(m, orgID, bucketID, start, end) ==
    [database |-> DatabaseName(bucketID), rp |-> DefaultRetentionPolicyName,
     start |-> IF start <= 0 THEN MinNanoTime ELSE start,
     end |-> IF end <= 0 THEN MaxNanoTime ELSE end,
     err |-> NoError]

\* a clamp that lets a zero bound through
validateArgsStrictClamp(m, orgID, bucketID, start, end) ==
    LET database == DatabaseName(bucketID)
        rp == DefaultRetentionPolicyName
        failed(e) == [database |-> <<>>, rp |-> "", start |-> 0, end |-> 0, err |-> e]
    IN IF database \notin DOMAIN m.databases THEN failed("no database")
       ELSE IF rp \notin m.databases[database] THEN failed("invalid retention policy")
       ELSE [database |-> database, rp |-> rp,
             start |-> IF start < 0 THEN MinNanoTime ELSE start,
             end |-> IF end < 0 THEN MaxNanoTime ELSE end,
             err |-> NoError]

validateArgs(m, orgID, bucketID, start, end) ==
    LET database == DatabaseName(bucketID)
        rp == DefaultRetentionPolicyName
        failed(e) == [database |-> <<>>, rp |-> "", start |-> 0, end |-> 0, err |-> e]
    IN IF database \notin DOMAIN m.databases THEN failed("no database")
       ELSE IF rp \notin m.databases[database] THEN failed("invalid retention policy")
       ELSE [database |-> database, rp |-> rp,
             start |-> IF start <= 0 THEN MinNanoTime ELSE start,
             end |-> IF end <= 0 THEN MaxNanoTime ELSE end,
             err |-> NoError]

\* ------------------------------------------------------ ReadFilter, ReadGroup
\* e: what the collaborators answer during the call
ReadFilter(m, r, e) ==
    IF r.source.kind = "nil" THEN Return(r, NilValue, "missing read source", <<>>, NoCursors)
    ELSE IF r.source.kind = "bad" THEN Return(r, NilValue, "unmarshal", <<>>, NoCursors)
    ELSE
    LET va == validateArgs(m, r.source.OrganizationID, r.source.BucketID, r.Range.Start, r.Range.End)
        c1 == <<"Database">>
    IN IF va.err # NoError THEN Return(r, NilValue, va.err, c1, NoCursors)
    ELSE
    LET fs == findShardIDs(m, va.database, va.rp, FALSE, va.start, va.end, e.metaFails)
        c2 == c1 \o <<"ShardGroupsByTimeRange">>
    IN IF fs.err # NoError THEN Return(r, NilValue, fs.err, c2, NoCursors)
    ELSE IF Len(fs.ids) = 0 THEN Return(r, NilValue, NoError, c2, NoCursors)
    ELSE
    LET c3 == c2 \o <<"Shards">>
    IN IF e.cursor = "err" THEN Return(r, NilValue, "cursor", c3, NoCursors)
    ELSE IF e.cursor = "nil" THEN Return(r, NilValue, NoError, c3, NoCursors)
    ELSE Return([r EXCEPT !.Range = [Start |-> va.start, End |-> va.end]],
                NewFilteredResultSet, NoError, c3,
                [NoCursors EXCEPT !.series = "open", !.opened = 1])

ReadGroup(m, r, e) ==
    IF r.source.kind = "nil" THEN Return(r, NilValue, "missing read source", <<>>, NoCursors)
    ELSE IF r.source.kind = "bad" THEN Return(r, NilValue, "unmarshal", <<>>, NoCursors)
    ELSE
    LET va == validateArgs(m, r.source.OrganizationID, r.source.BucketID, r.Range.Start, r.Range.End)
        c1 == <<"Database">>
    IN IF va.err # NoError THEN Return(r, NilValue, va.err, c1, NoCursors)
    ELSE
    LET fs == findShardIDs(m, va.database, va.rp, FALSE, va.start, va.end, e.metaFails)
        c2 == c1 \o <<"ShardGroupsByTimeRange">>
    IN IF fs.err # NoError THEN Return(r, NilValue, fs.err, c2, NoCursors)
    ELSE IF Len(fs.ids) = 0 THEN Return(r, NilValue, NoError, c2, NoCursors)
    ELSE
    LET c3 == c2 \o <<"Shards">>
        r2 == [r EXCEPT !.Range = [Start |-> va.start, End |-> va.end]]
    IN IF e.cursor # "ok" THEN Return(r2, NilValue, NoError, c3, NoCursors)
       ELSE Return(r2, NewGroupResultSet, NoError, c3,
                   [NoCursors EXCEPT !.series = "open", !.opened = 1])

\* ------------------------------------------------------ predicate handling
\* Store.TagValues' translation for the metaquery attributes
MetaPredicate(root) ==
    IF root.kind = "absent" THEN [err |-> NoError, expr |-> NoPredicate]
    ELSE LET t == NodeToExpr(root)
         IN IF t.err # NoError THEN [err |-> t.err, expr |-> NoPredicate]
            ELSE IF HasFieldValueKey(t.expr)
                 THEN [err |-> "field values unsupported", expr |-> NoPredicate]
            ELSE [err |-> NoError,
                  expr |-> IF IsTrueBooleanLiteral(t.expr) THEN NoPredicate ELSE t.expr]

\* the translation for the index: _field references are removed
IndexPredicate(root) ==
    IF root.kind = "absent" THEN [err |-> NoError, expr |-> NoPredicate]
    ELSE LET t == NodeToExpr(root)
         IN IF t.err # NoError THEN [err |-> t.err, expr |-> NoPredicate]
            ELSE IF HasFieldValueKey(t.expr)
                 THEN [err |-> "field values unsupported", expr |-> NoPredicate]
            ELSE LET x == RewriteExprRemoveFieldKeyAndValue(t.expr)
                 IN [err |-> NoError,
                     expr |-> IF IsTrueBooleanLiteral(x) THEN NoPredicate ELSE x]

\* "_tagKey" = req.TagKey, conjoined with the predicate when there is one
TagKeyExpr(expr) == [kind |-> "expr", refs |-> {"_tagKey"} \cup expr.refs]

\* -------------------------------------------------------------------- TagKeys
TagKeysNames(keys) ==
    SortedNames({measurementKey, fieldKey} \cup UNION {SeqRange(keys[i].Keys) : i \in 1..Len(keys)})

TagKeys(m, r, e) ==
    IF r.source.kind = "nil" THEN Return(r, NilValue, "missing read source", <<>>, NoCursors)
    ELSE IF r.source.kind = "bad" THEN Return(r, NilValue, "unmarshal", <<>>, NoCursors)
    ELSE
    LET va == validateArgs(m, r.source.OrganizationID, r.source.BucketID, r.Range.Start, r.Range.End)
        c1 == <<"Database">>
    IN IF va.err # NoError THEN Return(r, NilValue, va.err, c1, NoCursors)
    ELSE
    LET fs == findShardIDs(m, va.database, va.rp, FALSE, va.start, va.end, e.metaFails)
        c2 == c1 \o <<"ShardGroupsByTimeRange">>
    IN IF fs.err # NoError THEN Return(r, NilValue, fs.err, c2, NoCursors)
    ELSE IF Len(fs.ids) = 0 THEN Return(r, EmptyStringIterator, NoError, c2, NoCursors)
    ELSE
    LET tr == IndexPredicate(r.Predicate)
    IN IF tr.err # NoError THEN Return(r, NilValue, tr.err, c2, NoCursors)
    ELSE
    LET c3 == c2 \o <<"TagKeys">>
    IN IF e.engineFails
       THEN [Return(r, EmptyStringIterator, "engine", c3, NoCursors) EXCEPT !.cond = tr.expr]
       ELSE [Return(r, NewStringSliceIterator(TagKeysNames(e.keys)), NoError, c3, NoCursors)
                EXCEPT !.cond = tr.expr, !.resp = [kind |-> "keys", items |-> e.keys]]

\* -------------------------------------------------------------- tagValuesSlow
\* rs.Tags().Get(tagKey) on a series of the result set
TagsGet(series, tagKey) ==
    IF tagKey = measurementKey THEN series.measurement
    ELSE IF tagKey = fieldKey THEN series.field
    ELSE ""

\* a check that takes an empty first batch for data
cursorHasDataAnyBatch(c) == c.points >= 0

\* the first batch of the typed array cursor is not empty
cursorHasData(c) == c.points # 0

\* rs.Next(): the result set has another series
ResultSetNext(sc, series, context) == sc.idx < Len(series)

\* tagValuesSlow up to its loop
tagValuesSlow(m, r, mq, tagKey, cs, e) ==
    LET Slow(o) == [o EXCEPT !.path = "scan"]
        fs == findShardIDs(m, mq.db, mq.rp, FALSE, mq.start, mq.end, e.metaFails)
        c1 == cs \o <<"ShardGroupsByTimeRange">>
    IN IF fs.err # NoError THEN Slow(Return(r, NilValue, fs.err, c1, NoCursors))
    ELSE IF Len(fs.ids) = 0 THEN Slow(Return(r, EmptyStringIterator, NoError, c1, NoCursors))
    ELSE
    LET c2 == c1 \o <<"Shards">>
    IN IF e.cursor = "err" THEN Slow(Return(r, NilValue, "cursor", c2, NoCursors))
    ELSE IF e.cursor = "nil" THEN Slow(Return(r, NilValue, NoError, c2, NoCursors))
    ELSE [pc |-> "scanning", req |-> r, ret |-> NoReturn, calls |-> c2, cond |-> mq.pred,
          resp |-> [kind |-> "series", items |-> e.series],
          cursors |-> [NoCursors EXCEPT !.series = "open", !.opened = 1],
          scan |-> [NoScan EXCEPT !.tagKey = tagKey], path |-> "scan"]

\* ------------------------------------------- MeasurementNames, measurementFields
\* a listing that never falls back to the scan
MeasurementNamesIndexOnly(m, r, mq, cs, e) ==
    LET c1 == cs \o <<"MeasurementNames">>
    IN IF e.engineFails
       THEN [Return(r, NilValue, "engine", c1, NoCursors)
                EXCEPT !.cond = mq.pred, !.path = "names"]
       ELSE [Return(r, NewStringSliceIterator(SortedNames(SeqRange(e.names))), NoError, c1, NoCursors)
                EXCEPT !.cond = mq.pred, !.resp = [kind |-> "names", items |-> e.names],
                       !.path = "names"]

MeasurementNames(m, r, mq, cs, e) ==
    IF mq.pred.kind # "absent" /\ HasFieldKeyOrValue(mq.pred)[1]
    THEN tagValuesSlow(m, r, mq, measurementKey, cs, e)
    ELSE
    LET c1 == cs \o <<"MeasurementNames">>
    IN IF e.engineFails
       THEN [Return(r, NilValue, "engine", c1, NoCursors)
                EXCEPT !.cond = mq.pred, !.path = "names"]
       ELSE [Return(r, NewStringSliceIterator(SortedNames(SeqRange(e.names))), NoError, c1, NoCursors)
                EXCEPT !.cond = mq.pred, !.resp = [kind |-> "names", items |-> e.names],
                       !.path = "names"]

\* the loop over the field-key iterator: p.Aux[0] of every point that has one
RECURSIVE FieldNames(_)
FieldNames(points) ==
    IF points = <<>> THEN <<>>
    ELSE (IF Len(Head(points).Aux) >= 1 THEN <<Head(points).Aux[1]>> ELSE <<>>)
         \o FieldNames(Tail(points))

measurementFields(m, r, mq, cs, e) ==
    IF mq.pred.kind # "absent" /\ (HasFieldKeyOrValue(mq.pred)[1] \/ hasTagKey(mq.pred))
    THEN tagValuesSlow(m, r, mq, fieldKey, cs, e)
    ELSE
    LET Fast(o) == [o EXCEPT !.path = "fields"]
        fs == findShardIDs(m, mq.db, mq.rp, FALSE, mq.start, mq.end, e.metaFails)
        c1 == cs \o <<"ShardGroupsByTimeRange">>
    IN IF fs.err # NoError THEN Fast(Return(r, NilValue, fs.err, c1, NoCursors))
    ELSE IF Len(fs.ids) = 0 THEN Fast(Return(r, EmptyStringIterator, NoError, c1, NoCursors))
    ELSE
    LET c2 == c1 \o <<"ShardGroup", "CreateIterator">>
    IN IF e.engineFails
       THEN [Return(r, NilValue, "engine", c2, NoCursors)
                EXCEPT !.cond = mq.pred, !.path = "fields"]
       ELSE [Return(r, NewStringSliceIterator(MergeSortedStrings(SortStrings(FieldNames(e.points)))),
                    NoError, c2, [NoCursors EXCEPT !.iter = "closed", !.opened = 1])
                EXCEPT !.cond = mq.pred, !.resp = [kind |-> "points", items |-> e.points],
                       !.path = "fields"]

\* ------------------------------------------------------------------ TagValues
TagValuesNames(values) ==
    SortedNames(UNION {{values[i].Values[j].Value : j \in 1..Len(values[i].Values)}
                       : i \in 1..Len(values)})

TagValues(m, r, e) ==
    IF r.source.kind = "nil" THEN Return(r, NilValue, "missing read source", <<>>, NoCursors)
    ELSE IF r.source.kind = "bad" THEN Return(r, NilValue, "unmarshal", <<>>, NoCursors)
    ELSE
    LET va == validateArgs(m, r.source.OrganizationID, r.source.BucketID, r.Range.Start, r.Range.End)
        c1 == <<"Database">>
    IN IF va.err # NoError THEN Return(r, NilValue, va.err, c1, NoCursors)
    ELSE
    LET mp == MetaPredicate(r.Predicate)
    IN IF mp.err # NoError THEN Return(r, NilValue, mp.err, c1, NoCursors)
    ELSE
    LET mqAttrs == [orgID |-> r.source.OrganizationID, db |-> va.database, rp |-> va.rp,
                    start |-> va.start, end |-> va.end, pred |-> mp.expr]
        tagKey == Remap(r.TagKey)
    IN IF tagKey = "_name" THEN MeasurementNames(m, r, mqAttrs, c1, e)
    ELSE IF tagKey = "_field" THEN measurementFields(m, r, mqAttrs, c1, e)
    ELSE
    LET Index(o) == [o EXCEPT !.path = "index"]
        fs == findShardIDs(m, va.database, va.rp, FALSE, va.start, va.end, e.metaFails)
        c2 == c1 \o <<"ShardGroupsByTimeRange">>
    IN IF fs.err # NoError THEN Index(Return(r, NilValue, fs.err, c2, NoCursors))
    ELSE IF Len(fs.ids) = 0 THEN Index(Return(r, EmptyStringIterator, NoError, c2, NoCursors))
    ELSE
    LET tr == IndexPredicate(r.Predicate)
    IN IF tr.err # NoError THEN Index(Return(r, NilValue, tr.err, c2, NoCursors))
    ELSE
    LET expr == TagKeyExpr(tr.expr)
        c3 == c2 \o <<"TagValues">>
    IN IF e.engineFails
       THEN [Return(r, NilValue, "engine", c3, NoCursors) EXCEPT !.cond = expr, !.path = "index"]
       ELSE [Return(r, NewStringSliceIterator(TagValuesNames(e.values)), NoError, c3, NoCursors)
                EXCEPT !.cond = expr, !.resp = [kind |-> "values", items |-> e.values],
                       !.path = "index"]

\* ------------------------------------------------- inputs and collaborators
\* the read source of a request: absent, not decodable, or naming a bucket
Sources ==
    {[kind |-> "nil", OrganizationID |-> 0, BucketID |-> 0],
     [kind |-> "bad", OrganizationID |-> 0, BucketID |-> 0]}
    \cup {[kind |-> "ok", OrganizationID |-> 1, BucketID |-> b] : b \in Buckets}
TagKeyInputs == {"host", "_measurement", "_field"}

NewRequest(op, source, start, end, pred, tagKey) ==
    [op |-> op, source |-> source, Range |-> [Start |-> start, End |-> end],
     Predicate |-> pred, TagKey |-> tagKey]

\* what the index may answer: any order, any duplication
IndexStrings == {"host", "Region"}
FieldStrings == {"idle", "load"}

KeysResponses ==
    {[i \in DOMAIN s |-> [Keys |-> s[i]]] : s \in SeqsUpTo(SeqsUpTo(IndexStrings, MaxResp), 2)}

ValuesResponses ==
    {[i \in DOMAIN s |-> [Values |-> [j \in DOMAIN s[i] |-> [Key |-> "host", Value |-> s[i][j]]]]]
        : s \in SeqsUpTo(SeqsUpTo(IndexStrings, MaxResp), 2)}

NamesResponses == SeqsUpTo({"cpu", "mem"}, MaxResp)

PointsResponses == SeqsUpTo({[Aux |-> <<>>]} \cup {[Aux |-> <<f>>] : f \in FieldStrings}, MaxResp)

\* the series a series cursor may yield: with or without a data cursor, and a
\* data cursor with or without points in range
SeriesUniverse ==
    {[measurement |-> t[1], field |-> t[2], hasCursor |-> c[1], points |-> c[2]]
        : t \in {<<"cpu", "idle">>, <<"mem", "load">>},
          c \in {<<FALSE, 0>>, <<TRUE, 0>>, <<TRUE, 2>>}}

SeriesResponses == SeqsUpTo(SeriesUniverse, MaxSeries)

\* What the collaborators do during one call.  Every failure ends the call,
\* so at most one of them is met; the engine answers the one question asked.
Answer(fault) ==
    [metaFails |-> fault = "meta", engineFails |-> fault = "engine",
     cursor |-> IF fault = "cursor err" THEN "err" ELSE IF fault = "cursor nil" THEN "nil" ELSE "ok",
     keys |-> <<>>, values |-> <<>>, names |-> <<>>, points |-> <<>>, series |-> <<>>]

Faults == {Answer(f) : f \in {"meta", "engine", "cursor err", "cursor nil"}}

ReadAnswers == Faults \cup {Answer("none")}

TagKeysAnswers == Faults \cup {[Answer("none") EXCEPT !.keys = k] : k \in KeysResponses}

TagValuesAnswers ==
    Faults
    \cup {[Answer("none") EXCEPT !.values = v] : v \in ValuesResponses}
    \cup {[Answer("none") EXCEPT !.names = n] : n \in NamesResponses}
    \cup {[Answer("none") EXCEPT !.points = p] : p \in PointsResponses}
    \cup {[Answer("none") EXCEPT !.series = x] : x \in SeriesResponses}

\* --------------------------------------------------------------------- actions
Init ==
    /\ meta \in MetaStates
    /\ pc = "idle"
    /\ submitted = NoRequest
    /\ req = NoRequest
    /\ ret = NoReturn
    /\ calls = <<>>
    /\ cond = NoPredicate
    /\ resp = NoResponse
    /\ cursors = NoCursors
    /\ scan = NoScan
    /\ ctx = "live"
    /\ validated = NotValidated
    /\ path = ""

Apply(r, o) ==
    /\ pc' = o.pc
    /\ submitted' = r
    /\ req' = o.req
    /\ ret' = o.ret
    /\ calls' = o.calls
    /\ cond' = o.cond
    /\ resp' = o.resp
    /\ cursors' = o.cursors
    /\ scan' = o.scan
    /\ path' = o.path
    /\ validated' = IF r.source.kind = "ok"
                    THEN validateArgs(meta, r.source.OrganizationID, r.source.BucketID,
                                      r.Range.Start, r.Range.End)
                    ELSE NotValidated
    /\ UNCHANGED <<meta, ctx>>

CallReadFilter ==
    /\ pc = "idle"
    /\ \E source \in Sources, start \in Times, end \in Times,
          pred \in WirePredicates, e \in ReadAnswers :
          LET r == NewRequest("ReadFilter", source, start, end, pred, "")
          IN Apply(r, ReadFilter(meta, r, e))

CallReadGroup ==
    /\ pc = "idle"
    /\ \E source \in Sources, start \in Times, end \in Times,
          pred \in WirePredicates, e \in ReadAnswers :
          LET r == NewRequest("ReadGroup", source, start, end, pred, "")
          IN Apply(r, ReadGroup(meta, r, e))

CallTagKeys ==
    /\ pc = "idle"
    /\ \E source \in Sources, start \in Times, end \in Times,
          pred \in WirePredicates, e \in TagKeysAnswers :
          LET r == NewRequest("TagKeys", source, start, end, pred, "")
          IN Apply(r, TagKeys(meta, r, e))

CallTagValues ==
    /\ pc = "idle"
    /\ \E source \in Sources, start \in Times, end \in Times,
          pred \in WirePredicates, tagKey \in TagKeyInputs, e \in TagValuesAnswers :
          LET r == NewRequest("TagValues", source, start, end, pred, tagKey)
          IN Apply(r, TagValues(meta, r, e))

\* for rs.Next() { c := rs.Cursor() ...
ScanNext ==
    /\ pc = "scanning"
    /\ ResultSetNext(scan, resp.items, ctx)
    /\ LET row == resp.items[scan.idx + 1]
       IN /\ scan' = [scan EXCEPT !.idx = @ + 1]
          /\ cursors' = IF row.hasCursor
                        THEN [cursors EXCEPT !.data = "open", !.opened = @ + 1]
                        ELSE [cursors EXCEPT !.data = "none"]
    /\ pc' = "body"
    /\ UNCHANGED <<meta, submitted, req, ret, calls, cond, resp, ctx, validated, path>>

\* ... if c == nil { return }; defer c.Close(); if cursorHasData(c) { m[tag] = {} } }
ScanBodyResult(sc, row) ==
    IF row.hasCursor /\ cursorHasData(row)
    THEN [sc EXCEPT !.m = @ \cup {TagsGet(row, sc.tagKey)}]
    ELSE sc

ScanBodyCursors(cu, row) ==
    IF row.hasCursor THEN [cu EXCEPT !.data = "closed"] ELSE cu

ScanBody ==
    /\ pc = "body"
    /\ LET row == resp.items[scan.idx]
       IN /\ scan' = ScanBodyResult(scan, row)
          /\ cursors' = ScanBodyCursors(cursors, row)
    /\ pc' = "scanning"
    /\ UNCHANGED <<meta, submitted, req, ret, calls, cond, resp, ctx, validated, path>>

\* the loop has ended: the names are sorted and returned; nothing is closed here
ScanReturn ==
    /\ pc = "scanning"
    /\ ~ResultSetNext(scan, resp.items, ctx)
    /\ ret' = [val |-> NewStringSliceIterator(SortedNames(scan.m)), err |-> NoError]
    /\ pc' = "done"
    /\ UNCHANGED <<meta, submitted, req, calls, cond, resp, cursors, scan, ctx, validated, path>>

\* the caller cancels the context, or its deadline expires, during the scan
Cancel ==
    /\ pc \in {"scanning", "body"}
    /\ ctx = "live"
    /\ ctx' = "cancelled"
    /\ UNCHANGED <<meta, pc, submitted, req, ret, calls, cond, resp, cursors, scan,
                   validated, path>>

\* the call is over; the next request starts from a fresh context
\* validateArgs on its own, over the whole width of the timestamps
CallValidateArgs ==
    /\ pc = "idle"
    /\ \E bucketID \in Buckets, start \in MinInt..MaxInt, end \in MinInt..MaxInt :
          /\ submitted' = NewRequest("validateArgs",
                                     [kind |-> "ok", OrganizationID |-> 1, BucketID |-> bucketID],
                                     start, end, NoPredicate, "")
          /\ validated' = validateArgs(meta, 1, bucketID, start, end)
    /\ pc' = "done"
    /\ UNCHANGED <<meta, req, ret, calls, cond, resp, cursors, scan, ctx, path>>

NextRequest ==
    /\ pc = "done"
    /\ pc' = "idle"
    /\ submitted' = NoRequest
    /\ req' = NoRequest
    /\ ret' = NoReturn
    /\ calls' = <<>>
    /\ cond' = NoPredicate
    /\ resp' = NoResponse
    /\ cursors' = NoCursors
    /\ scan' = NoScan
    /\ ctx' = "live"
    /\ validated' = NotValidated
    /\ path' = ""
    /\ UNCHANGED meta

Next ==
    \/ CallReadFilter
    \/ CallReadGroup
    \/ CallTagKeys
    \/ CallTagValues
    \/ ScanNext
    \/ ScanBody
    \/ ScanReturn
    \/ Cancel
    \/ NextRequest

Spec == Init /\ [][Next]_vars

ClampNext ==
    \/ CallValidateArgs
    \/ NextRequest

ClampSpec == Init /\ [][ClampNext]_vars

\* ---------------------------------------------------------------- properties
Returned == pc = "done"
Succeeded == pc = "done" /\ ret.err = NoError

EngineMethods == {"Shards", "ShardGroup", "CreateIterator", "TagKeys", "TagValues", "MeasurementNames"}
Called == SeqRange(calls)

\* the request names a bucket whose database and retention policy exist
KnownDatabase ==
    /\ submitted.source.kind = "ok"
    /\ DatabaseName(submitted.source.BucketID) \in DOMAIN meta.databases
    /\ DefaultRetentionPolicyName \in meta.databases[DatabaseName(submitted.source.BucketID)]

ClampedStart == IF submitted.Range.Start <= 0 THEN MinNanoTime ELSE submitted.Range.Start
ClampedEnd == IF submitted.Range.End <= 0 THEN MaxNanoTime ELSE submitted.Range.End

\* no shard group of the metadata service overlaps the clamped range
ZeroGroups ==
    \A i \in 1..Len(meta.groups) : ~Overlaps(meta.groups[i], ClampedStart, ClampedEnd)

\* C1: every call that returns without error returns a non-nil result set /
\* string iterator, also when zero shards match or the series cursor is nothing.
C1_SuccessIsNeverNil == Succeeded => ret.val.kind # "nil"

\* C2 as stated: with zero shard groups overlapping the clamped range, no entry
\* point invokes any storage-engine method.
C2_ZeroGroupsNoEngineCall ==
    (pc # "idle" /\ KnownDatabase /\ ZeroGroups) => Called \cap EngineMethods = {}

\* TagValues for a key remapped to "_name", with a predicate that references no
\* field key: answered by the engine's measurement-name listing
MeasurementNameListing ==
    /\ submitted.op = "TagValues"
    /\ Remap(submitted.TagKey) = "_name"
    /\ "_field" \notin submitted.Predicate.refs

\* C2 amended: with zero shard groups overlapping the clamped range no
\* storage-engine method is invoked, except by TagValues on the
\* measurement-name listing path, which looks up no shard groups and invokes
\* TSDBStore.MeasurementNames and nothing else.
C2_ZeroGroupsNoEngineCallButNames ==
    (pc # "idle" /\ KnownDatabase /\ ZeroGroups) =>
        IF MeasurementNameListing
        THEN Called \cap EngineMethods \subseteq {"MeasurementNames"}
             /\ "ShardGroupsByTimeRange" \notin Called
        ELSE Called \cap EngineMethods = {}

\* a field-name listing that found zero shard groups in a metadata service
\* that has shard groups, and returned the empty iterator
C2_Witness ==
    /\ Succeeded /\ KnownDatabase /\ ZeroGroups
    /\ meta.groups # <<>>
    /\ submitted.op = "TagValues" /\ submitted.TagKey = "_field"
    /\ "ShardGroupsByTimeRange" \in Called
    /\ ret.val = EmptyStringIterator

\* C3: every successful TagKeys result holds both synthetic keys; with zero
\* shard groups it is exactly <<"_field", "_measurement">> and no index is asked.
C3_TagKeysHasSyntheticKeys ==
    (Succeeded /\ submitted.op = "TagKeys") =>
        /\ {fieldKey, measurementKey} \subseteq SeqRange(ret.val.items)
        /\ ZeroGroups => /\ ret.val.items = <<fieldKey, measurementKey>>
                         /\ Called \cap EngineMethods = {}

\* C4: TagKeys and TagValues answer a predicate on a field value with the
\* unsupported-predicate error, before any shard lookup or engine call.
C4_FieldValueRejectedFirst ==
    (Returned /\ KnownDatabase /\ submitted.op \in {"TagKeys", "TagValues"}
        /\ "_value" \in submitted.Predicate.refs) =>
        /\ ret.err = "field values unsupported"
        /\ "ShardGroupsByTimeRange" \notin Called
        /\ Called \cap EngineMethods = {}

\* the request has no read source, or names a bucket without a database
NoSourceOrDatabase ==
    \/ submitted.source.kind = "nil"
    \/ /\ submitted.source.kind = "ok"
       /\ DatabaseName(submitted.source.BucketID) \notin DOMAIN meta.databases

\* C5: a request without read source, or for a bucket whose database is
\* unknown, is answered with an error after no shard-group lookup, no engine
\* call and no cursor, and the request object is as it was passed.
C5_NoSourceOrDatabaseFailsEarly ==
    (pc # "idle" /\ NoSourceOrDatabase) =>
        /\ pc = "done"
        /\ ret.err # NoError
        /\ "ShardGroupsByTimeRange" \notin Called
        /\ Called \cap EngineMethods = {}
        /\ cursors.opened = 0
        /\ req = submitted

\* a read over a bucket without database returned "no database"
C5_Witness ==
    /\ Returned
    /\ submitted.op = "ReadFilter"
    /\ submitted.source.kind = "ok"
    /\ DatabaseName(submitted.source.BucketID) \notin DOMAIN meta.databases
    /\ submitted.Range.Start <= 0
    /\ ret.err = "no database"
    /\ calls = <<"Database">>

\* the scan of tagValuesSlow ran, over the series in resp.items
Scanned == resp.kind = "series"

\* the tag the scan collects: tagValuesSlow is entered for these two only
ScanTarget == IF Remap(submitted.TagKey) = "_name" THEN measurementKey ELSE fieldKey

\* the target tag's values on the yielded series that have a data cursor with
\* at least one point in range
ValuesWithData ==
    {TagsGet(resp.items[i], ScanTarget) :
        i \in {j \in 1..Len(resp.items) : resp.items[j].hasCursor /\ resp.items[j].points > 0}}

\* C6: the scan fallback returns exactly the target-tag values of the yielded
\* series whose data cursor has at least one point; a series without data
\* cursor or with zero points contributes nothing.
C6_ScanReturnsValuesWithData ==
    (Succeeded /\ Scanned) => SeqRange(ret.val.items) = ValuesWithData

\* a scan over a series with data and a series whose cursor has no point, with
\* different values of the target tag
C6_Witness ==
    /\ Succeeded /\ Scanned
    /\ \E i, j \in 1..Len(resp.items) :
          /\ resp.items[i].hasCursor /\ resp.items[i].points > 0
          /\ resp.items[j].hasCursor /\ resp.items[j].points = 0
          /\ TagsGet(resp.items[i], ScanTarget) # TagsGet(resp.items[j], ScanTarget)
    /\ Len(ret.val.items) = 1

\* C7: when tagValuesSlow or measurementFields has returned, every cursor the
\* call obtained is closed, and a per-series data cursor is closed before the
\* series sequence is advanced again.
C7_EveryCursorClosed ==
    /\ (Returned /\ submitted.op = "TagValues") =>
          /\ cursors.series # "open"
          /\ cursors.data # "open"
          /\ cursors.iter # "open"
    /\ pc = "scanning" => cursors.data # "open"

\* C8: once the context is cancelled and the scan stands between two series
\* with series left to visit, the scan stops: it does not advance to another
\* series.
C8_CancelledScanStops ==
    [][(pc = "scanning" /\ ctx = "cancelled" /\ scan.idx < Len(resp.items)) =>
          (scan'.idx = scan.idx /\ pc' # "body")]_vars

StrictlyAscending(names) == \A i \in 1..(Len(names) - 1) : StrLess(names[i], names[i + 1])

Mentioned(x) ==
    IF resp.kind = "keys"
        THEN \E i \in DOMAIN resp.items : \E j \in DOMAIN resp.items[i].Keys :
                resp.items[i].Keys[j] = x
    ELSE IF resp.kind = "values"
        THEN \E i \in DOMAIN resp.items : \E j \in DOMAIN resp.items[i].Values :
                resp.items[i].Values[j].Value = x
    ELSE IF resp.kind = "names"
        THEN \E i \in DOMAIN resp.items : resp.items[i] = x
    ELSE IF resp.kind = "points"
        THEN \E i \in DOMAIN resp.items : resp.items[i].Aux # <<>> /\ resp.items[i].Aux[1] = x
    ELSE x \in ValuesWithData

\* the distinct strings of the engine's answer, with the two synthetic keys
\* for TagKeys
ResponseStrings ==
    {x \in SeqRange(StringOrder) : Mentioned(x)}
    \cup (IF resp.kind = "keys" THEN {measurementKey, fieldKey} ELSE {})

\* C9: whatever the order and duplication of the engine's answer, the names
\* returned by TagKeys, TagValues (index, measurement-name and scan paths) and
\* the field-name listing are strictly ascending, hence without duplicates,
\* and are exactly the distinct strings of the answer.
C9_NamesSortedAndDistinct ==
    (Succeeded /\ resp.kind # "none") =>
        /\ StrictlyAscending(ret.val.items)
        /\ SeqRange(ret.val.items) = ResponseStrings

\* a TagKeys answer out of order and with duplicates, within and across entries
C9_Witness ==
    /\ Succeeded
    /\ resp.kind = "keys"
    /\ resp.items = <<[Keys |-> <<"host", "Region">>], [Keys |-> <<"host", "host">>]>>
    /\ ret.val.items = <<"Region", "_field", "_measurement", "host">>

\* C10: after a ReadFilter or ReadGroup that returned without error, the
\* Range of the request holds the clamped start and end, on every successful
\* return path.
C10_RangeHoldsClampedBounds ==
    (Succeeded /\ submitted.op \in {"ReadFilter", "ReadGroup"}) =>
        req.Range = [Start |-> ClampedStart, End |-> ClampedEnd]

\* C11: validateArgs replaces a start that is zero or negative by MinNanoTime
\* and an end that is zero or negative by MaxNanoTime, each on its own; bounds
\* that are strictly positive come back as they were passed, in the order they
\* were passed, also when start is after end.
C11_ClampsEachBoundAlone ==
    validated.err = NoError =>
        /\ validated.start = IF submitted.Range.Start <= 0 THEN MinNanoTime
                              ELSE submitted.Range.Start
        /\ validated.end = IF submitted.Range.End <= 0 THEN MaxNanoTime
                            ELSE submitted.Range.End
        /\ (submitted.Range.Start > 0 /\ submitted.Range.End > 0) =>
              /\ validated.start = submitted.Range.Start
              /\ validated.end = submitted.Range.End

\* validateArgs succeeded on strictly positive bounds with start after end,
\* and handed them back in that order
C11_Witness ==
    /\ pc = "done" /\ submitted.op = "validateArgs"
    /\ validated.err = NoError
    /\ submitted.Range.End > 0
    /\ submitted.Range.Start > submitted.Range.End
    /\ validated.start > validated.end

\* a TagValues call that got past validateArgs and the predicate's translation
ReachedDispatch ==
    /\ pc # "idle" /\ submitted.op = "TagValues" /\ KnownDatabase
    /\ submitted.Predicate.kind # "bad"
    /\ "_value" \notin submitted.Predicate.refs

\* what the submitted predicate references
RefersToFieldKey == "_field" \in submitted.Predicate.refs
RefersToTagKey == submitted.Predicate.refs \ {"_field", "_value", "_measurement"} # {}

\* the path the remapped tag key and the predicate call for
ExpectedPath ==
    IF Remap(submitted.TagKey) = "_name"
    THEN IF RefersToFieldKey THEN "scan" ELSE "names"
    ELSE IF Remap(submitted.TagKey) = "_field"
    THEN IF RefersToFieldKey \/ RefersToTagKey THEN "scan" ELSE "fields"
    ELSE "index"

====
